---- MODULE Spec2Model ----
(***************************************************************************)
(* Client-side orchestration layer of the clinical-assistant web app       *)
(* (static/script.js): per-workflow file staging, the submission pipeline, *)
(* session binding and the UI feedback it drives.                          *)
(***************************************************************************)
EXTENDS Integers, Sequences, FiniteSets, Bags, TLC

\* ------------------------------------------------------------------ bounds
MaxPick == 2        \* longest ordinary candidate list of one pick
MaxStageOps == 2    \* File Stage calls in one run of StageSpec
MaxOps == 3         \* user events (select, remove, click) in one run of Spec
MaxCalls == 2       \* invocations of processTab in one run of Spec

\* ------------------------------------------------------- program constants
TranslatorMax == 1
DefaultMax == 10
LabelLength == 8

\* ------------------------------------------------------------- the domain
tabs == {"triage", "reports", "scribe", "translator", "polypharmacy"}

\* JavaScript values that are not always strings
JsNull == [type |-> "null"]
JsUndefined == [type |-> "undefined"]
JsString(chars) == [type |-> "string", chars |-> chars]

\* String(value), as FormData.append and template literals apply it
ToChars(value) ==
    CASE value.type = "string" -> value.chars
      [] value.type = "null" -> <<"n", "u", "l", "l">>
      [] OTHER -> <<"u", "n", "d", "e", "f", "i", "n", "e", "d">>

\* value || fallback
OrElse(value, fallback) ==
    IF value.type = "string" /\ Len(value.chars) > 0 THEN value.chars ELSE fallback

\* MIME types as character sequences, so that startsWith is a real prefix test
ImagePrefix == <<"i", "m", "a", "g", "e", "/">>
PngType == ImagePrefix \o <<"p", "n", "g">>
JpegType == ImagePrefix \o <<"j", "p", "e", "g">>
PdfType == <<"a", "p", "p", "l", "i", "c", "a", "t", "i", "o", "n", "/", "p", "d", "f">>
NoType == <<>>

\* The files the user can offer, by identity: 1 and 2 are images, 3 is a PDF,
\* the files above 100 are the photos of an album, and every other file is
\* one whose type the browser does not know ('').
Files == {1, 2, 3}
TypeOf(file) ==
    CASE file = 1 -> PngType
      [] file = 2 -> JpegType
      [] file = 3 -> PdfType
      [] file > 100 -> PngType
      [] OTHER -> NoType

Min(a, b) == IF a < b THEN a ELSE b
Max(a, b) == IF a > b THEN a ELSE b

\* Candidate lists of one pick (a FileList holds distinct files): every list
\* of at most MaxPick files, and three drops around the default limit: a
\* folder of as many files as the limit, of which two are images, an album
\* of as many photos as the limit, and an album of one photo more.
Distinct(s) == \A i, j \in 1..Len(s) : i # j => s[i] # s[j]
ShortLists == UNION {{s \in [1..n -> Files] : Distinct(s)} : n \in 0..MaxPick}
Bulk(n) == [i \in 1..n |-> IF i <= 2 THEN i ELSE 3 + i]
Album(n) == [i \in 1..n |-> 100 + i]
FileLists == ShortLists \cup {Bulk(DefaultMax), Album(DefaultMax), Album(DefaultMax + 1)}

\* Indexes removeFile is called with, on both sides of every staged list
RemoveIndexes == (0 - MaxPick - 1)..MaxPick

\* The picks and the removal handle used while submissions are explored: a
\* file that is no image, and two images
SubmitLists == {<<3>>, <<1, 2>>}
SubmitIndexes == {0}

\* What the servers can answer; status 0 stands for a fetch that rejects
Statuses == {0, 200, 500}
SessionToken == <<"4", "f", "9", "a", "-", "7", "c", "2", "e", "-", "b", "1">>
JsonNull == [json |-> "null"]
SessionBodies == {JsonNull,
                  [json |-> "object", session_id |-> JsUndefined],
                  [json |-> "object", session_id |-> JsString(SessionToken)]}
NoData == [type |-> "undefined", items |-> <<>>]
Array(items) == [type |-> "array", items |-> items]
Entry == [type |-> "object"]
Payload(status, error, data) ==
    [json |-> "object", status |-> status, error |-> error, data |-> data]
Text(chars) == JsString(chars)
Test == [type |-> "object", test_name |-> Text(<<"H", "b">>),
         result |-> Text(<<"1", "3">>)]
Medicine == [type |-> "object", brand_name |-> Text(<<"D", "o", "l", "o">>),
             frequency |-> Text(<<"B", "D">>)]
Vitals == [type |-> "object", pulse |-> Text(<<"7", "2">>),
           physical_signs |-> Text(<<"p", "a", "l", "e">>)]
Notes == [type |-> "object", duration |-> Text(<<"3", "d">>),
          allergies |-> Array(<<Text(<<"d", "u", "s", "t">>)>>)]
Translation == [type |-> "object"]

\* Bodies every endpoint can answer with
Payloads == {JsonNull,
             Payload("error", JsUndefined, NoData),
             Payload("error", JsString(<<"model unavailable">>), NoData),
             Payload("success", JsUndefined, NoData)}

\* Success bodies by workflow: data is the first field its builder reads
\* (vitals_extraction, extracted_tests, transcribed_notes, translation,
\* medicines_extracted), whole, with fields missing, or with a null entry
SuccessData(tab) ==
    CASE tab = "reports" -> {Array(<<>>), Array(<<Test, JsNull>>), Array(<<Entry>>)}
      [] tab = "polypharmacy" -> {Array(<<>>), Array(<<Medicine, JsNull>>), Array(<<Entry>>)}
      [] tab = "triage" -> {Vitals, Entry}
      [] tab = "scribe" -> {Notes, Entry}
      [] OTHER -> {Translation}
PayloadsOf(tab) ==
    Payloads \cup {Payload("success", JsUndefined, data) : data \in SuccessData(tab)}

\* ----------------------------------------------------------------- state
VARIABLES
    sessionId,      \* let sessionId = null
    sessionPc,      \* where initializeSession stands
    sessionLabel,   \* text of the session-id element
    sessionRequests, \* history: fetches of /session/create issued so far
    sessionWrites,  \* history: assignments to sessionId so far
    fileStorage,    \* tab -> the staged files, in order
    disabled,       \* tab -> the disabled attribute of the process button
    previewItems,   \* tab -> the children of the preview container
    pendingReads,   \* bag of FileReader reads that have not fired onload
    results,        \* tab -> the content of the results container
    loading,        \* the loading overlay carries the class 'active'
    toast,          \* text and type last given to the toast element
    calls,          \* every invocation of processTab, in order, with its position
    lastDone,       \* history: index of the call that finished last, 0 if none
    lastOp,         \* history: the last File Stage call and what it met
    opsLeft         \* history: user events the run may still take

stageVars == <<fileStorage, disabled, previewItems, pendingReads>>
sessionVars == <<sessionId, sessionPc, sessionLabel, sessionRequests, sessionWrites>>
pipelineVars == <<results, loading, calls, lastDone>>
vars == <<sessionId, sessionPc, sessionLabel, sessionRequests, sessionWrites, fileStorage, disabled, previewItems,
          pendingReads, results, loading, toast, calls, lastDone, lastOp, opsLeft>>

NoToast == [text |-> <<>>, type |-> "none"]
NoOp == [op |-> "none", tab |-> "none", files |-> <<>>, index |-> 0,
         before |-> <<>>, disabledBefore |-> TRUE, toasted |-> FALSE]
EmptyResults == [kind |-> "empty", text |-> <<>>]

\* ------------------------------------------------------------ UI feedback
\* showToast(message, type): the element's text and class
ShowToast(text, type) == [text |-> text, type |-> type]

\* showLoading(show)
ShowLoading(show) == loading' = show

\* Template-literal rendering of the numbers the messages carry
Str(n) ==
    CASE n = 1 -> "1"
      [] n = 10 -> "10"
      [] n = 200 -> "200"
      [] n = 500 -> "500"
      [] OTHER -> "n"

\* ------------------------------------------------------------- file stage
\* const maxFiles = (tab === 'translator') ? 1 : 10
MaxFilesAlwaysDefault(tab) == DefaultMax
MaxFiles(tab) == IF tab = "translator" THEN TranslatorMax ELSE DefaultMax

\* if (files.length > maxFiles)
OverLimitOffByOne(files, maxFiles) == Len(files) > maxFiles + 1
OverLimit(files, maxFiles) == Len(files) > maxFiles

\* String.prototype.startsWith
StartsWith(s, prefix) ==
    /\ Len(s) >= Len(prefix)
    /\ SubSeq(s, 1, Len(prefix)) = prefix

\* file.type.startsWith('image/')
IsImage(file) == StartsWith(TypeOf(file), ImagePrefix)

\* Array.from(files).forEach(file => { if (...) fileStorage[tab].push(file) })
\* run on the array acc
RECURSIVE PushImages(_, _)
PushImages(acc, files) ==
    IF files = <<>> THEN acc
    ELSE PushImages(IF IsImage(Head(files)) THEN Append(acc, Head(files)) ELSE acc,
                    Tail(files))

\* fileStorage[tab] = []; then the forEach above
StoreAppending(old, files) == PushImages(old, files)
Store(old, files) == PushImages(<<>>, files)

\* Array.prototype.splice(index, 1): a negative index counts from the end
\* and is clamped to 0, an index past the end deletes nothing
Splice(seq, index) ==
    LET len == Len(seq)
        start == IF index < 0 THEN Max(len + index, 0) ELSE Min(index, len)
        count == Min(1, len - start)
    IN  SubSeq(seq, 1, start) \o SubSeq(seq, start + count + 1, len)

\* updatePreview(tab): empty the container, start one read per staged file,
\* prepend the file count when there are files
CountItem(n) == [kind |-> "count", file |-> 0, index |-> n]
PreviewItem(file, index) == [kind |-> "item", file |-> file, index |-> index]
ReadsOf(tab, staged) ==
    SetToBag({[tab |-> tab, file |-> staged[i], index |-> i - 1] : i \in 1..Len(staged)})
UpdatePreview(tab, staged) ==
    /\ previewItems' = [previewItems EXCEPT
            ![tab] = IF Len(staged) > 0 THEN <<CountItem(Len(staged))>> ELSE <<>>]
    /\ pendingReads' = pendingReads (+) ReadsOf(tab, staged)

\* The page once DOMContentLoaded has run: nothing staged, the session
\* request issued, the process buttons disabled until files are staged
Start(budget) ==
    /\ sessionId = JsNull
    /\ sessionPc = "fetch"
    /\ sessionLabel = <<>>
    /\ sessionRequests = 1
    /\ sessionWrites = 0
    /\ fileStorage = [t \in tabs |-> <<>>]
    /\ disabled = [t \in tabs |-> TRUE]
    /\ previewItems = [t \in tabs |-> <<>>]
    /\ pendingReads = EmptyBag
    /\ results = [t \in tabs |-> EmptyResults]
    /\ loading = FALSE
    /\ toast = NoToast
    /\ calls = <<>>
    /\ lastDone = 0
    /\ lastOp = NoOp
    /\ opsLeft = budget

Init == Start(MaxOps)
StageInit == Start(MaxStageOps)

\* handleFileSelect(tab, files)
HandleFileSelect(tab, files) ==
    LET maxFiles == MaxFiles(tab)
        op == [op |-> "select", tab |-> tab, files |-> files, index |-> 0,
               before |-> fileStorage[tab], disabledBefore |-> disabled[tab],
               toasted |-> FALSE]
    IN
    /\ opsLeft > 0
    /\ opsLeft' = opsLeft - 1
    /\ IF Len(files) = 0
       THEN /\ lastOp' = op
            /\ UNCHANGED <<stageVars, toast>>
       ELSE IF OverLimit(files, maxFiles)
       THEN /\ toast' = ShowToast(<<"Maximum ", Str(maxFiles), " file(s) allowed">>, "error")
            /\ lastOp' = [op EXCEPT !.toasted = TRUE]
            /\ UNCHANGED stageVars
       ELSE LET staged == Store(fileStorage[tab], files) IN
            /\ fileStorage' = [fileStorage EXCEPT ![tab] = staged]
            /\ UpdatePreview(tab, staged)
            /\ disabled' = IF Len(staged) > 0
                            THEN [disabled EXCEPT ![tab] = FALSE]
                            ELSE disabled
            /\ lastOp' = op
            /\ UNCHANGED toast
    /\ UNCHANGED <<sessionVars, pipelineVars>>

\* removeFile(tab, index)
RemoveFile(tab, index) ==
    LET staged == Splice(fileStorage[tab], index) IN
    /\ opsLeft > 0
    /\ opsLeft' = opsLeft - 1
    /\ fileStorage' = [fileStorage EXCEPT ![tab] = staged]
    /\ UpdatePreview(tab, staged)
    /\ disabled' = IF Len(staged) = 0
                    THEN [disabled EXCEPT ![tab] = TRUE]
                    ELSE disabled
    /\ lastOp' = [op |-> "remove", tab |-> tab, files |-> <<>>, index |-> index,
                  before |-> fileStorage[tab], disabledBefore |-> disabled[tab],
                  toasted |-> FALSE]
    /\ UNCHANGED <<toast, sessionVars, pipelineVars>>

\* reader.onload of one pending read: append the preview item to the
\* container of the read's tab
ReaderOnload(read) ==
    /\ BagIn(read, pendingReads)
    /\ pendingReads' = pendingReads (-) SetToBag({read})
    /\ previewItems' = [previewItems EXCEPT
            ![read.tab] = Append(@, PreviewItem(read.file, read.index))]
    /\ UNCHANGED <<fileStorage, disabled, toast, lastOp, opsLeft>>
    /\ UNCHANGED <<sessionVars, pipelineVars>>

\* ------------------------------------------------------- session binding
\* catch (error) { showToast('Failed to create session', 'error') }: no retry
SessionFailedRetrying ==
    /\ toast' = ShowToast(<<"Failed to create session">>, "error")
    /\ IF sessionRequests < 2
       THEN sessionPc' = "fetch" /\ sessionRequests' = sessionRequests + 1
       ELSE sessionPc' = "done" /\ UNCHANGED sessionRequests
SessionFailed ==
    /\ toast' = ShowToast(<<"Failed to create session">>, "error")
    /\ sessionPc' = "done"
    /\ UNCHANGED sessionRequests

\* initializeSession: await fetch(.../session/create) settles
SessionFetchSettles(ok) ==
    /\ sessionPc = "fetch"
    /\ IF ok
       THEN sessionPc' = "json" /\ UNCHANGED <<toast, sessionRequests>>
       ELSE SessionFailed
    /\ UNCHANGED <<sessionId, sessionLabel, sessionWrites, stageVars, pipelineVars, lastOp, opsLeft>>

\* initializeSession: await response.json() settles; parsed = FALSE is a
\* body that does not parse
SessionJsonSettles(parsed, data) ==
    /\ sessionPc = "json"
    /\ IF ~parsed \/ data = JsonNull
       THEN SessionFailed /\ UNCHANGED <<sessionId, sessionLabel, sessionWrites>>
       ELSE /\ sessionId' = data.session_id
            /\ sessionWrites' = sessionWrites + 1
            /\ IF data.session_id.type # "string"
               THEN SessionFailed /\ UNCHANGED sessionLabel
               ELSE /\ sessionLabel' =
                        SubSeq(data.session_id.chars, 1,
                               Min(LabelLength, Len(data.session_id.chars)))
                        \o <<".", ".", ".">>
                    /\ toast' = ShowToast(<<"Session created successfully">>, "success")
                    /\ sessionPc' = "done"
                    /\ UNCHANGED sessionRequests
    /\ UNCHANGED <<stageVars, pipelineVars, lastOp, opsLeft>>

\* --------------------------------------------------- submission pipeline
\* if (fileStorage[tab].length === 0)
NeverEmpty(staged) == FALSE
NothingStaged(staged) == Len(staged) = 0

\* fileStorage[tab].forEach(file => formData.append('files', file))
FormFilesSkippingFirst(staged) == Tail(staged)
FormFiles(staged) == staged

\* processTab reads fileStorage and writes nothing of the File Stage
StageCleared ==
    /\ fileStorage' = [t \in tabs |-> <<>>]
    /\ UNCHANGED <<disabled, previewItems, pendingReads>>
StageUntouched == UNCHANGED stageVars

\* switch (tab) { case ...: endpoint = ... }
Endpoint(tab) ==
    CASE tab = "triage" -> "/triage/process"
      [] tab = "reports" -> "/reports/process"
      [] tab = "scribe" -> "/scribe/process"
      [] tab = "translator" -> "/translator/process"
      [] tab = "polypharmacy" -> "/polypharmacy/process"
      [] OTHER -> ""

NoRequest == [url |-> "", files |-> <<>>, session_id |-> <<>>]
NoError == <<>>
Call(tab, pc) ==
    [tab |-> tab, pc |-> pc, staged |-> fileStorage[tab], sessionAt |-> sessionId,
     notice |-> <<>>, fetches |-> 0, request |-> NoRequest,
     shows |-> 0, hides |-> 0, displayed |-> FALSE, error |-> NoError,
     parsed |-> FALSE, result |-> JsonNull, content |-> EmptyResults]

\* processTab(tab), from the click to the first await
ProcessTab(tab) ==
    /\ ~disabled[tab]
    /\ opsLeft > 0
    /\ Len(calls) < MaxCalls
    /\ opsLeft' = opsLeft - 1
    /\ IF NothingStaged(fileStorage[tab])
       THEN /\ toast' = ShowToast(<<"No files selected">>, "error")
            /\ calls' = Append(calls,
                    [Call(tab, "returned") EXCEPT !.notice = <<"No files selected">>])
            /\ UNCHANGED loading
       ELSE /\ ShowLoading(TRUE)
            /\ calls' = Append(calls,
                    [Call(tab, "fetch") EXCEPT
                        !.shows = 1,
                        !.fetches = 1,
                        !.request = [url |-> Endpoint(tab),
                                     files |-> FormFiles(fileStorage[tab]),
                                     session_id |-> ToChars(sessionId)]])
            /\ UNCHANGED toast
    /\ StageUntouched
    /\ UNCHANGED <<sessionVars, results, lastDone, lastOp>>

\* catch (error) { showToast(`Error: ${error.message}`) } finally { showLoading(false) }
CatchWithoutFinally(i, message) ==
    /\ toast' = ShowToast(<<"Error: ">> \o message, "error")
    /\ UNCHANGED loading
    /\ calls' = [calls EXCEPT ![i] = [@ EXCEPT !.pc = "done", !.error = message,
                                                !.notice = <<"Error: ">> \o message]]
    /\ lastDone' = i
CatchFinally(i, message) ==
    /\ toast' = ShowToast(<<"Error: ">> \o message, "error")
    /\ ShowLoading(FALSE)
    /\ calls' = [calls EXCEPT ![i] = [@ EXCEPT !.pc = "done", !.hides = @ + 1,
                                                !.error = message,
                                                !.notice = <<"Error: ">> \o message]]
    /\ lastDone' = i

\* the same catch and finally, entered from a throw inside displayResults
RenderThrew(i, result) ==
    /\ toast' = ShowToast(<<"Error: ">> \o <<"Cannot read properties of null">>, "error")
    /\ ShowLoading(FALSE)
    /\ calls' = [calls EXCEPT ![i] = [@ EXCEPT
            !.pc = "done", !.hides = @ + 1, !.displayed = TRUE,
            !.error = <<"Cannot read properties of null">>,
            !.notice = <<"Error: ">> \o <<"Cannot read properties of null">>,
            !.parsed = TRUE, !.result = result]]
    /\ lastDone' = i

ServerError(status) == <<"Server error: ", Str(status)>>
NetworkError == <<"Failed to fetch">>
SyntaxError == <<"Unexpected token in JSON">>
TypeError == <<"Cannot read properties of null">>

\* response.ok
Ok(status) == status >= 200 /\ status <= 299

\* processTab: await fetch(...) settles
FetchSettles(i, status) ==
    /\ calls[i].pc = "fetch"
    /\ IF status = 0
       THEN CatchFinally(i, NetworkError)
       ELSE IF ~Ok(status)
       THEN CatchFinally(i, ServerError(status))
       ELSE /\ calls' = [calls EXCEPT ![i].pc = "json"]
            /\ UNCHANGED <<toast, loading, lastDone>>
    /\ StageUntouched
    /\ UNCHANGED <<sessionVars, results, lastOp, opsLeft>>

\* object.key: undefined when the object has no such key
Field(object, key) == IF key \in DOMAIN object THEN object[key] ELSE JsUndefined

\* if (value), for the values a payload carries
Truthy(value) ==
    \/ value.type = "string" /\ Len(value.chars) > 0
    \/ value.type \in {"object", "array"}

\* !list || list.length === 0
NoneListed(list) ==
    \/ list.type \in {"undefined", "null"}
    \/ list.type = "array" /\ Len(list.items) = 0

\* One piece of the markup: which entry of the list it belongs to (0 for
\* the section itself), the field it shows, and its text
Cell(entry, field, text) == [entry |-> entry, field |-> field, text |-> text]

RECURSIVE Flatten(_)
Flatten(rows) == IF rows = <<>> THEN <<>> ELSE Head(rows) \o Flatten(Tail(rows))

\* for (const entry of list) html += ...: a null entry is dereferenced
Rows(list, rows) ==
    IF \E k \in 1..Len(list.items) : list.items[k] = JsNull
    THEN [throws |-> TRUE, html |-> <<>>]
    ELSE [throws |-> FALSE,
          html |-> Flatten(rows)]

\* value || fallback, always rendered
Always(k, entry, key, fallback) ==
    <<Cell(k, key, OrElse(Field(entry, key), fallback))>>

\* value ? `<span>${value}</span>` : ''
WhenPresent(k, entry, key) ==
    IF Truthy(Field(entry, key))
    THEN <<Cell(k, key, ToChars(Field(entry, key)))>>
    ELSE <<>>

\* buildTestsTable(tests)
TestRow(k, test) ==
    Always(k, test, "test_name", <<"Unknown">>) \o Always(k, test, "result", <<"N/A">>)
BuildTestsTable(tests) ==
    IF NoneListed(tests)
    THEN [throws |-> FALSE, html |-> <<Cell(0, "extracted_tests", <<"No test data extracted">>)>>]
    ELSE Rows(tests, [k \in 1..Len(tests.items) |-> TestRow(k, tests.items[k])])

\* buildMedicinesList(medicines)
MedicineCard(k, med) ==
    Always(k, med, "brand_name", <<"[Unclear]">>) \o WhenPresent(k, med, "frequency")
BuildMedicinesList(medicines) ==
    IF NoneListed(medicines)
    THEN [throws |-> FALSE, html |-> <<Cell(0, "medicines_extracted", <<"No medicines detected">>)>>]
    ELSE Rows(medicines,
              [k \in 1..Len(medicines.items) |-> MedicineCard(k, medicines.items[k])])

\* buildVitalsTable(vitals)
BuildVitalsTable(vitals) ==
    IF ~Truthy(vitals)
    THEN [throws |-> FALSE, html |-> <<Cell(0, "vitals_extraction", <<"No vitals extracted">>)>>]
    ELSE [throws |-> FALSE,
          html |-> <<Cell(0, "pulse",
                          IF Field(vitals, "pulse").type \in {"null", "undefined"}
                          THEN <<"Not recorded">>
                          ELSE ToChars(Field(vitals, "pulse")) \o <<" bpm">>)>>
                   \o WhenPresent(0, vitals, "physical_signs")]

\* notes.allergies.map(allergy => `<li>${allergy}</li>`).join('')
Joined(list) == Flatten([k \in 1..Len(list.items) |-> ToChars(list.items[k])])

\* buildTranscribedNotes(notes)
BuildTranscribedNotes(notes) ==
    IF ~Truthy(notes)
    THEN [throws |-> FALSE, html |-> <<Cell(0, "transcribed_notes", <<"No notes transcribed">>)>>]
    ELSE [throws |-> FALSE,
          html |-> WhenPresent(0, notes, "duration")
                   \o <<Cell(0, "allergies",
                             IF NoneListed(Field(notes, "allergies"))
                             THEN <<"No allergies noted">>
                             ELSE Joined(Field(notes, "allergies")))>>]

\* `${JSON.stringify(value, null, 2)}`: JSON.stringify(undefined) is
\* undefined, which the template literal turns into text
Stringify(value) ==
    CASE value.type = "undefined" -> ToChars(JsUndefined)
      [] value.type = "null" -> ToChars(JsNull)
      [] value.type = "string" -> <<"\"">> \o value.chars \o <<"\"">>
      [] OTHER -> <<"{}">>

\* buildTranslatorResults(result)
BuildTranslatorResults(translation) ==
    [throws |-> FALSE, html |-> <<Cell(0, "translation", Stringify(translation))>>]

\* switch (tab) { case ...: html += build...Results(result) }
BuildResults(tab, result) ==
    CASE tab = "triage" -> BuildVitalsTable(result.data)
      [] tab = "reports" -> BuildTestsTable(result.data)
      [] tab = "scribe" -> BuildTranscribedNotes(result.data)
      [] tab = "translator" -> BuildTranslatorResults(result.data)
      [] tab = "polypharmacy" -> BuildMedicinesList(result.data)
      [] OTHER -> [throws |-> FALSE, html |-> <<>>]

\* displayResults(tab, result): what the results container holds when the
\* function ends, and whether it ended by throwing
DisplayResults(tab, result) ==
    IF result = JsonNull
    THEN [throws |-> TRUE, content |-> EmptyResults]
    ELSE IF result.status # "success"
    THEN [throws |-> FALSE,
          content |-> [kind |-> "result-error",
                       text |-> <<"Error: ">> \o OrElse(result.error, <<"Unknown error">>)]]
    ELSE LET built == BuildResults(tab, result) IN
         IF built.throws
         THEN [throws |-> TRUE, content |-> EmptyResults]
         ELSE [throws |-> FALSE, content |-> [kind |-> "html", text |-> built.html]]

\* processTab: await response.json() settles; parsed = FALSE is a body that
\* does not parse
JsonSettles(i, parsed, result) ==
    /\ calls[i].pc = "json"
    /\ IF ~parsed
       THEN CatchFinally(i, SyntaxError) /\ UNCHANGED results
       ELSE LET shown == DisplayResults(calls[i].tab, result) IN
            /\ results' = [results EXCEPT ![calls[i].tab] = shown.content]
            /\ IF shown.throws
               THEN RenderThrew(i, result)
               ELSE /\ toast' = ShowToast(<<"Processing completed successfully">>, "success")
                    /\ ShowLoading(FALSE)
                    /\ calls' = [calls EXCEPT ![i] = [@ EXCEPT
                            !.pc = "done", !.hides = @ + 1, !.displayed = TRUE,
                            !.notice = <<"Processing completed successfully">>,
                            !.parsed = TRUE, !.result = result,
                            !.content = shown.content]]
                    /\ lastDone' = i
    /\ StageUntouched
    /\ UNCHANGED <<sessionVars, lastOp, opsLeft>>

\* ------------------------------------------------------- specifications
\* The File Stage alone, on every candidate list and every index
StageNext ==
    \/ \E tab \in tabs, files \in FileLists : HandleFileSelect(tab, files)
    \/ \E tab \in tabs, index \in RemoveIndexes : RemoveFile(tab, index)

StageSpec == StageInit /\ [][StageNext]_vars

\* The whole page; file reads for previews stay pending
Next ==
    \/ \E tab \in tabs, files \in SubmitLists : HandleFileSelect(tab, files)
    \/ \E tab \in tabs, index \in SubmitIndexes : RemoveFile(tab, index)
    \/ \E tab \in tabs : ProcessTab(tab)
    \/ \E i \in 1..Len(calls), status \in Statuses : FetchSettles(i, status)
    \/ \E i \in 1..Len(calls) : JsonSettles(i, FALSE, JsonNull)
    \/ \E i \in 1..Len(calls) :
        \E result \in PayloadsOf(calls[i].tab) : JsonSettles(i, TRUE, result)
    \/ \E ok \in BOOLEAN : SessionFetchSettles(ok)
    \/ SessionJsonSettles(FALSE, JsonNull)
    \/ \E data \in SessionBodies : SessionJsonSettles(TRUE, data)

Spec == Init /\ [][Next]_vars

\* The File Stage with its file reads: every pending FileReader fires its
\* onload at some later time, in any order
PreviewNext ==
    \/ \E tab \in tabs, files \in SubmitLists : HandleFileSelect(tab, files)
    \/ \E tab \in tabs, index \in SubmitIndexes : RemoveFile(tab, index)
    \/ \E read \in BagToSet(pendingReads) : ReaderOnload(read)

PreviewSpec == StageInit /\ [][PreviewNext]_vars

\* ================================================================ claims
\* What the specification says of each workflow, stated apart from the code
LimitOf(w) == IF w = "translator" THEN 1 ELSE 10
HasImageType(file) ==
    LET type == TypeOf(file) IN
    /\ Len(type) >= 6
    /\ \A k \in 1..6 : type[k] = ImagePrefix[k]
ImagesIn(files) == SelectSeq(files, HasImageType)
Without(seq, i) == [k \in 1..(Len(seq) - 1) |-> IF k <= i THEN seq[k] ELSE seq[k + 1]]
Accepted(op) ==
    /\ op.op = "select"
    /\ Len(op.files) >= 1
    /\ Len(op.files) <= LimitOf(op.tab)
InFlight(call) == call.pc \in {"fetch", "json"}
OwnEndpoint(w) ==
    CASE w = "triage" -> "/triage/process"
      [] w = "reports" -> "/reports/process"
      [] w = "scribe" -> "/scribe/process"
      [] w = "translator" -> "/translator/process"
      [] w = "polypharmacy" -> "/polypharmacy/process"

\* C1: in every state select and remove calls can reach, each workflow's
\* staged set is no longer than the workflow's maximum (1 for translator, 10
\* for the others) and holds image-typed files only.
C1_StagedWithinLimitAndImages ==
    \A w \in tabs :
        /\ Len(fileStorage[w]) <= LimitOf(w)
        /\ \A k \in 1..Len(fileStorage[w]) : HasImageType(fileStorage[w][k])

\* C1 witness: the translator holds its maximum of one file while another
\* workflow has just staged its maximum, an album of ten photos.
C1_Witness ==
    /\ Len(fileStorage["translator"]) = 1
    /\ lastOp.op = "select"
    /\ lastOp.tab # "translator"
    /\ Len(lastOp.files) = 10
    /\ Len(fileStorage[lastOp.tab]) = 10

C3_SelectReplacesWithImages ==
    Accepted(lastOp) => fileStorage[lastOp.tab] = ImagesIn(lastOp.files)

\* C3 witness: a mixed list replaced a different, non-empty staged set and
\* lost its members that are no images.
C3_Witness ==
    /\ Accepted(lastOp)
    /\ Len(lastOp.before) > 0
    /\ Len(fileStorage[lastOp.tab]) > 0
    /\ Len(fileStorage[lastOp.tab]) < Len(lastOp.files)
    /\ \A k \in 1..Len(lastOp.before) :
            \A j \in 1..Len(fileStorage[lastOp.tab]) :
                lastOp.before[k] # fileStorage[lastOp.tab][j]

\* C4: remove(w, i) removes exactly the entry at position i when
\* 0 <= i < length and leaves the staged set unchanged for every other
\* index, negative ones included.
C4_RemoveIsBoundsChecked ==
    lastOp.op = "remove" =>
        IF lastOp.index >= 0 /\ lastOp.index < Len(lastOp.before)
        THEN fileStorage[lastOp.tab] = Without(lastOp.before, lastOp.index)
        ELSE fileStorage[lastOp.tab] = lastOp.before

\* C5: after every accepted select and every remove, the workflow's submit
\* control is enabled exactly when the resulting staged set is non-empty.
C5_SubmitEnabledIffStaged ==
    (Accepted(lastOp) \/ lastOp.op = "remove")
    => (~disabled[lastOp.tab] <=> Len(fileStorage[lastOp.tab]) > 0)

\* C6: a submit invoked while nothing is staged returns at once: it reports
\* "No files selected", issues no request, never turns the loading indicator
\* on and never calls the renderer.
C6_EmptySubmitFailsImmediately ==
    \A i \in 1..Len(calls) :
        Len(calls[i].staged) = 0 =>
            /\ calls[i].pc = "returned"
            /\ calls[i].notice = <<"No files selected">>
            /\ calls[i].fetches = 0
            /\ calls[i].request.files = <<>>
            /\ calls[i].shows = 0
            /\ calls[i].hides = 0
            /\ ~calls[i].displayed

\* C6 witness: the submit control was clicked on a workflow whose staged set
\* was empty.
C6_Witness ==
    \E i \in 1..Len(calls) :
        /\ Len(calls[i].staged) = 0
        /\ calls[i].pc = "returned"

\* C7: a submit with files staged issues exactly one request, to the
\* workflow's own endpoint, carrying the files staged when submit was invoked,
\* all of them and in order, and the session identifier held then; what
\* select and remove do afterwards does not change the request.
C7_RequestCarriesSnapshot ==
    \A i \in 1..Len(calls) :
        Len(calls[i].staged) > 0 =>
            /\ calls[i].fetches = 1
            /\ calls[i].request.url = OwnEndpoint(calls[i].tab)
            /\ calls[i].request.files = calls[i].staged
            /\ calls[i].sessionAt.type = "string"
                    => calls[i].request.session_id = calls[i].sessionAt.chars

\* C7 witness: a request carrying the session identifier is in flight while
\* the staged set of its workflow is no longer what the request carries.
C7_Witness ==
    \E i \in 1..Len(calls) :
        /\ InFlight(calls[i])
        /\ calls[i].sessionAt.type = "string"
        /\ Len(calls[i].request.files) > 0
        /\ fileStorage[calls[i].tab] # calls[i].request.files
        /\ lastOp.tab = calls[i].tab

\* C8: a submit that turned the loading indicator on turns it off exactly
\* once, when it finishes and on whichever path it finishes, and not before;
\* once no submission is in flight the indicator is off.
C8_LoadingReleasedOnce ==
    /\ \A i \in 1..Len(calls) :
        /\ calls[i].pc = "done" => calls[i].shows = 1 /\ calls[i].hides = 1
        /\ InFlight(calls[i]) => calls[i].shows = 1 /\ calls[i].hides = 0
        /\ calls[i].pc = "returned" => calls[i].shows = 0 /\ calls[i].hides = 0
    /\ (\A i \in 1..Len(calls) : ~InFlight(calls[i])) => ~loading

\* C8 witness: two submissions have finished, one because the renderer threw
\* and one on a status outside the success range, and the indicator is off.
C8_Witness ==
    /\ Len(calls) = 2
    /\ \A i \in 1..2 : calls[i].pc = "done"
    /\ \E i \in 1..2 : calls[i].displayed /\ calls[i].error # NoError
    /\ \E i \in 1..2 : calls[i].error = <<"Server error: ", "500">>
    /\ ~loading

\* C9: whenever a submission has issued its request and has not completed,
\* the loading indicator is on, overlapping submissions included.
C9_LoadingOnWhileInFlight ==
    (\E i \in 1..Len(calls) : InFlight(calls[i])) => loading

\* C10: when the submission that finished last failed on an HTTP status or a
\* transport exception, the failure shows as a notification carrying the
\* status or message and as an inline error block in the workflow's results
\* area, and the renderer was not called.
C10_FailureShownInline ==
    (lastDone # 0
        /\ calls[lastDone].error \in {<<"Failed to fetch">>, <<"Server error: ", "500">>})
    => /\ calls[lastDone].notice = <<"Error: ">> \o calls[lastDone].error
       /\ ~calls[lastDone].displayed
       /\ results[calls[lastDone].tab].kind = "result-error"

\* C11: no step of a submit, whatever its outcome, changes the staged set of
\* any workflow; only File Stage calls do.
C11_SubmitLeavesStage == [][calls' # calls => fileStorage' = fileStorage]_vars

\* C11 witness: a submit has failed after its request was issued, and the
\* files it carried are still staged for its workflow.
C11_Witness ==
    /\ \E i \in 1..Len(calls) :
        /\ calls[i].pc = "done"
        /\ calls[i].error # NoError
        /\ Len(calls[i].staged) > 0
        /\ fileStorage[calls[i].tab] = calls[i].staged

\* C12: a submit invoked while the session identifier is unset never ends
\* with a success result rendered in the results container.
C12_UnsetSessionNeverRendered ==
    \A i \in 1..Len(calls) :
        calls[i].sessionAt.type # "string" => calls[i].content.kind # "html"

\* C13: one session-creation request is issued in a run; sessionId is
\* assigned at most once, holds the returned identifier from then on, and is
\* no identifier while the failure toast shows; select, remove and submit can
\* be taken whatever the state of the session.
C13_SessionCreatedOnce ==
    /\ sessionRequests = 1
    /\ sessionWrites <= 1
    /\ sessionWrites = 0 => sessionId = JsNull
    /\ sessionId.type = "string" =>
        /\ sessionId = JsString(SessionToken)
        /\ sessionWrites = 1
        /\ sessionPc = "done"
    /\ toast.text = <<"Failed to create session">> => sessionId.type # "string"
    /\ \A tab \in tabs :
        opsLeft > 0 =>
            /\ ENABLED HandleFileSelect(tab, <<1>>)
            /\ ENABLED RemoveFile(tab, 0)
            /\ (~disabled[tab] /\ Len(calls) < MaxCalls) => ENABLED ProcessTab(tab)

\* C13 witness: creation has failed, the failure toast shows, and a submit
\* taken afterwards is waiting for its response.
C13_Witness ==
    /\ sessionPc = "done"
    /\ toast.text = <<"Failed to create session">>
    /\ sessionId.type # "string"
    /\ \E i \in 1..Len(calls) : calls[i].pc = "fetch" /\ calls[i].sessionAt = sessionId

\* C14: when the parsed response is null or carries the success status, the
\* renderer returns and the submit does not end in an error.
C14_RenderNeverRaises ==
    \A i \in 1..Len(calls) :
        (calls[i].parsed /\ (calls[i].result = JsonNull \/ calls[i].result.status = "success"))
            => calls[i].error = NoError

\* The placeholder texts of the result renderer
Placeholders ==
    {<<"Not recorded">>, <<"[Unclear]">>, <<"Unknown">>, <<"N/A">>,
     <<"No test data extracted">>, <<"No medicines detected">>,
     <<"No vitals extracted">>, <<"No notes transcribed">>, <<"No allergies noted">>,
     <<"No data available">>}

\* The fields of the rendered result that the model carries, by workflow
FieldsOf(tab) ==
    CASE tab = "triage" -> {"pulse", "physical_signs"}
      [] tab = "reports" -> {"test_name", "result"}
      [] tab = "scribe" -> {"duration", "allergies"}
      [] tab = "polypharmacy" -> {"brand_name", "frequency"}
      [] OTHER -> {}

Absent(value) == value.type \in {"undefined", "null"}

EntriesOf(data) ==
    IF data.type = "array"
    THEN {<<k, data.items[k]>> : k \in 1..Len(data.items)}
    ELSE {<<0, data>>}

Shown(cells) == {cells[k] : k \in 1..Len(cells)}

\* C15: in every rendered success result, a section whose value the payload
\* lacks shows a placeholder, and so does every field an entry lacks; nothing
\* is left out and nothing shows the text of an undefined value.
C15_PlaceholderLaw ==
    \A i \in 1..Len(calls) :
        calls[i].content.kind = "html" =>
            LET data == calls[i].result.data
                cells == Shown(calls[i].content.text)
            IN  IF Absent(data) \/ NoneListed(data)
                THEN \E c \in cells : c.entry = 0 /\ c.text \in Placeholders
                ELSE \A e \in EntriesOf(data) :
                        \A f \in FieldsOf(calls[i].tab) :
                            Absent(Field(e[2], f)) =>
                                \E c \in cells :
                                    /\ c.entry = e[1]
                                    /\ c.field = f
                                    /\ c.text \in Placeholders

\* The preview items a container shows, without the file-count element
ItemsShown(tab) ==
    {k \in 1..Len(previewItems[tab]) : previewItems[tab][k].kind = "item"}

\* C16: once no file read is pending, each workflow shows exactly one
\* preview item per staged file, and the index of its removal handle is the
\* position of that file in the staged set.
C16_PreviewsMatchStaged ==
    pendingReads = EmptyBag =>
        \A tab \in tabs :
            /\ Cardinality(ItemsShown(tab)) = Len(fileStorage[tab])
            /\ {previewItems[tab][k] : k \in ItemsShown(tab)}
                    = {PreviewItem(fileStorage[tab][i], i - 1) :
                            i \in 1..Len(fileStorage[tab])}

====
